---- MODULE Spec2Model ----
(***************************************************************************)
(* geolocate-core: the sorted interval map IpAddrBlockMap<A, T> and the    *)
(* block type IpAddrBlock<A> of src/geolocate-core/src/ip/mod.rs.          *)
(*                                                                         *)
(* An address is a natural number of 0..MaxAddr, a block is the pair       *)
(* <<start, end>>, an entry of the map is the pair <<block, value>>.       *)
(* Every method of the map is an operator from the map (`self`) and the    *)
(* arguments to the SET of its possible outcomes: the order that           *)
(* sort_unstable_by_key gives entries of equal key is not specified, so    *)
(* normalize has one outcome per admissible order.                         *)
(***************************************************************************)
EXTENDS Naturals, Sequences, FiniteSets

VARIABLES
    inner,              \* IpAddrBlockMap::inner, the Vec of (block, value)
    dirty,              \* IpAddrBlockMap::dirty, the "pending" flag
    debug_assertions,   \* the build: whether debug_assert! is compiled in
    search,             \* the build: which slice::binary_search_by the toolchain ships
    call                \* the caller: the call that has just returned (or Idle)

vars == <<inner, dirty, debug_assertions, search, call>>

(***************************************************************************)
(* Bounds.                                                                 *)
(***************************************************************************)
MaxAddr == 2
MaxLen == 3
MaxCapacity == 1

Addr == 0 .. MaxAddr
Values == {"US", "GB"}

\* Every pair of addresses; IpAddrBlock::new builds such a pair unchecked.
Pairs == Addr \X Addr
\* The blocks the checked constructors return.
Blocks == {b \in Pairs : b[1] <= b[2]}
Entries == Blocks \X Values

RECURSIVE SeqsUpTo(_, _)
SeqsUpTo(S, n) ==
    IF n = 0 THEN {<<>>}
    ELSE LET shorter == SeqsUpTo(S, n - 1)
         IN  shorter \cup {Append(s, x) : s \in {t \in shorter : Len(t) = n - 1}, x \in S}

(***************************************************************************)
(* Option<T> and std::cmp::Ordering.                                        *)
(***************************************************************************)
None == <<>>
Some(v) == <<v>>

Less == "Less"
Equal == "Equal"
Greater == "Greater"

NoFault == "none"
NotNormalized == "attempted to read from the map without normalizing"
Unreachable == "value could not be compared"
AssertStartLeEnd == "assertion failed: start <= end"

(***************************************************************************)
(* IpAddrBlock<A>                                                          *)
(***************************************************************************)
start(b) == b[1]
end(b) == b[2]

\* RangeInclusive::contains on self.start() ..= self.end()
range_contains(b, c) == start(b) <= c /\ c <= end(b)

\* impl PartialEq<A> for IpAddrBlock<A>
eq_addr(b, c) == range_contains(b, c)

\* Mutation of partial_cmp_addr: Less and Greater the other way round.
partial_cmp_addr_reversed(b, c) ==
    IF eq_addr(b, c) THEN Equal
    ELSE IF end(b) < c THEN Greater
    ELSE IF start(b) > c THEN Less
    ELSE Unreachable

\* Mutation of partial_cmp_addr: the Greater arm looks at the end of the block.
partial_cmp_addr_by_end(b, c) ==
    IF eq_addr(b, c) THEN Equal
    ELSE IF end(b) < c THEN Less
    ELSE IF end(b) > c THEN Greater
    ELSE Unreachable

\* impl PartialOrd<A> for IpAddrBlock<A>: the match arms in order; the last
\* arm is the unreachable!() one.
partial_cmp_addr(b, c) ==
    IF eq_addr(b, c) THEN Equal
    ELSE IF end(b) < c THEN Less
    ELSE IF start(b) > c THEN Greater
    ELSE Unreachable

\* Mutation of cmp: the start decides alone, the end breaks no tie.
cmp_start_only(a, b) ==
    IF a[1] < b[1] THEN Less
    ELSE IF a[1] > b[1] THEN Greater
    ELSE Equal

\* #[derive(PartialOrd, Ord)] on the tuple struct: field 0, then field 1.
cmp(a, b) ==
    IF a[1] < b[1] THEN Less
    ELSE IF a[1] > b[1] THEN Greater
    ELSE IF a[2] < b[2] THEN Less
    ELSE IF a[2] > b[2] THEN Greater
    ELSE Equal

\* Ord on the sort key (b.0, b.1) of normalize: the tuple's lexicographic order.
key_le(a, b) == a[1] < b[1] \/ (a[1] = b[1] /\ a[2] <= b[2])

\* Mutation of try_new: the comparison is strict, a one-address block is refused.
try_new_strict(s, e) ==
    IF s < e THEN [ok |-> TRUE, block |-> <<s, e>>]
    ELSE [ok |-> FALSE, block |-> <<>>]

\* IpAddrBlock::try_new: Ok(block) or Err(EmptyBlockError)
try_new(s, e) ==
    IF s <= e THEN [ok |-> TRUE, block |-> <<s, e>>]
    ELSE [ok |-> FALSE, block |-> <<>>]

\* impl TryFrom<(A, A)> for IpAddrBlock<A>
try_from_pair(pair) == try_new(pair[1], pair[2])

\* IpAddrBlock::new: debug_assert!(start <= end), then the pair as given.
new_block(s, e) ==
    IF debug_assertions /\ ~(s <= e)
    THEN [fault |-> AssertStartLeEnd, block |-> <<>>]
    ELSE [fault |-> NoFault, block |-> <<s, e>>]

\* impl From<A> for IpAddrBlock<A>
from(value) == <<value, value>>

\* IpAddrBlock::from_slice: slice.first() is read for the start AND for the
\* end; an empty slice is the error.
from_slice(slice) ==
    IF Len(slice) = 0 THEN [ok |-> FALSE, block |-> <<>>]
    ELSE [ok |-> TRUE, block |-> <<slice[1], slice[1]>>]

\* slice::sort_unstable on addresses: the addresses in ascending order (equal
\* addresses are indistinguishable, so the result is unique).
RECURSIVE sort_unstable(_)
sort_unstable(slice) ==
    IF Len(slice) = 0 THEN <<>>
    ELSE LET i == CHOOSE i \in 1 .. Len(slice) : \A j \in 1 .. Len(slice) : slice[i] <= slice[j]
         IN  <<slice[i]>> \o sort_unstable(SubSeq(slice, 1, i - 1) \o SubSeq(slice, i + 1, Len(slice)))

\* IpAddrBlock::from_mut_slice: the slice is sorted in place, then from_slice.
from_mut_slice(slice) == from_slice(sort_unstable(slice))

\* impl TryFrom<[A; N]>, TryFrom<&mut [A]> and TryFrom<Box<[A]>>
try_from_slice(value) == from_mut_slice(value)

(***************************************************************************)
(* Vec<T> and slice operations used by the map (indices are 0-based as in  *)
(* the source; position i of the source is element i + 1 of the sequence). *)
(***************************************************************************)
\* Vec::swap_remove(i): the last element takes the place of element i.
swap_remove(v, i) == [j \in 1 .. Len(v) - 1 |-> IF j = i + 1 THEN v[Len(v)] ELSE v[j]]

\* Vec::insert(i, x): x placed at index i, the elements from i on shifted right.
vec_insert(v, i, x) == SubSeq(v, 1, i) \o <<x>> \o SubSeq(v, i + 1, Len(v))

\* Vec::remove(i): element i taken out, the elements after it shifted left.
vec_remove(v, i) == SubSeq(v, 1, i) \o SubSeq(v, i + 2, Len(v))

\* std::mem::replace(&mut v[i], x)
vec_replace(v, i, x) == [v EXCEPT ![i + 1] = x]

\* Mutation of dedup_by: entries are taken for the same when their blocks
\* start at the same address.
RECURSIVE dedup_by_start(_)
dedup_by_start(v) ==
    IF Len(v) <= 1 THEN v
    ELSE LET kept == dedup_by_start(SubSeq(v, 1, Len(v) - 1))
             last == v[Len(v)]
         IN  IF last[1][1] = kept[Len(kept)][1][1] THEN kept ELSE Append(kept, last)

\* Vec::dedup_by(|(a, _), (b, _)| a == b): of each run of CONSECUTIVE entries
\* with the same block, all but the first are removed.
RECURSIVE dedup_by(_)
dedup_by(v) ==
    IF Len(v) <= 1 THEN v
    ELSE LET kept == dedup_by(SubSeq(v, 1, Len(v) - 1))
             last == v[Len(v)]
         IN  IF last[1] = kept[Len(kept)][1] THEN kept ELSE Append(kept, last)

Perms(n) == {p \in [1 .. n -> 1 .. n] : \A i, j \in 1 .. n : i # j => p[i] # p[j]}

\* slice::sort_unstable_by_key(|(b, _)| (b.0, b.1)): the entries in ascending
\* order of the key; entries of equal key in any order (the sort is unstable).
sort_unstable_by_key(v) ==
    {s \in {[i \in 1 .. Len(v) |-> v[p[i]]] : p \in Perms(Len(v))} :
        \A i \in 1 .. Len(v) - 1 : key_le(s[i][1], s[i + 1][1])}

Found(i) == [found |-> TRUE, index |-> i, fault |-> NoFault]
NotFound(i) == [found |-> FALSE, index |-> i, fault |-> NoFault]
SearchFault(f) == [found |-> FALSE, index |-> 0, fault |-> f]

\* slice::binary_search_by as shipped by Rust 1.52 to 1.81: the loop leaves at
\* the first probe that compares Equal. ords[i + 1] is the closure applied to
\* element i; a probe on which the closure panics ends the search.
RECURSIVE search_early_exit(_, _, _)
search_early_exit(ords, left, right) ==
    IF left < right
    THEN LET mid == left + ((right - left) \div 2)
             c == ords[mid + 1]
         IN  IF c = Unreachable THEN SearchFault(Unreachable)
             ELSE IF c = Less THEN search_early_exit(ords, mid + 1, right)
             ELSE IF c = Greater THEN search_early_exit(ords, left, mid)
             ELSE Found(mid)
    ELSE NotFound(left)

\* slice::binary_search_by as shipped before 1.52 and since 1.82: the loop
\* halves the size without an early exit and compares once more at the end.
RECURSIVE search_no_early_exit(_, _, _)
search_no_early_exit(ords, base, size) ==
    IF size > 1
    THEN LET half == size \div 2
             mid == base + half
             c == ords[mid + 1]
         IN  IF c = Unreachable THEN SearchFault(Unreachable)
             ELSE search_no_early_exit(ords, IF c = Greater THEN base ELSE mid, size - half)
    ELSE LET c == ords[base + 1]
         IN  IF c = Unreachable THEN SearchFault(Unreachable)
             ELSE IF c = Equal THEN Found(base)
             ELSE NotFound(base + (IF c = Less THEN 1 ELSE 0))

binary_search_by(ords) ==
    IF Len(ords) = 0 THEN NotFound(0)
    ELSE IF search = "early_exit" THEN search_early_exit(ords, 0, Len(ords))
    ELSE search_no_early_exit(ords, 0, Len(ords))

\* self.inner.binary_search_by(|(b, _)| b.partial_cmp(&address).expect(..))
search_address(v, address) ==
    binary_search_by([i \in 1 .. Len(v) |-> partial_cmp_addr(v[i][1], address)])

\* self.inner.binary_search_by_key(&block, |(b, _)| *b)
search_block(v, block) ==
    binary_search_by([i \in 1 .. Len(v) |-> cmp(v[i][1], block)])

(***************************************************************************)
(* IpAddrBlockMap<A, T>. A map is [inner, dirty]; an outcome of a method is *)
(* the map it leaves, what it returns and the panic it ends in, if any.    *)
(***************************************************************************)
Map(v, d) == [inner |-> v, dirty |-> d]
Returns(v, d, r) == [inner |-> v, dirty |-> d, ret |-> r, fault |-> NoFault]
Panics(self, f) == [inner |-> self.inner, dirty |-> self.dirty, ret |-> None, fault |-> f]

\* debug_assert!(!self.dirty, "attempted to read from the map without normalizing")
assert_normalized(self) == debug_assertions => ~self.dirty

\* IpAddrBlockMap::new (and the derived Default)
new == {Returns(<<>>, FALSE, None)}

\* IpAddrBlockMap::with_capacity
with_capacity(capacity) == {Returns(<<>>, FALSE, None)}

\* IpAddrBlockMap::contains_address
contains_address(self, address) ==
    IF ~assert_normalized(self) THEN {Panics(self, NotNormalized)}
    ELSE LET r == search_address(self.inner, address)
         IN  IF r.fault # NoFault THEN {Panics(self, r.fault)}
             ELSE {Returns(self.inner, self.dirty, <<r.found>>)}

\* IpAddrBlockMap::contains_block
contains_block(self, block) ==
    IF ~assert_normalized(self) THEN {Panics(self, NotNormalized)}
    ELSE {Returns(self.inner, self.dirty, <<search_block(self.inner, block).found>>)}

\* IpAddrBlockMap::len
len(self) == {Returns(self.inner, self.dirty, <<Len(self.inner)>>)}

\* IpAddrBlockMap::is_empty
is_empty(self) == {Returns(self.inner, self.dirty, <<Len(self.inner) = 0>>)}

\* Mutation of get_from_address: the debug assertion left out.
get_from_address_unchecked(self, address) ==
    LET index == search_address(self.inner, address)
    IN  IF index.fault # NoFault THEN {Panics(self, index.fault)}
        ELSE IF ~index.found THEN {Returns(self.inner, self.dirty, None)}
        ELSE {Returns(self.inner, self.dirty, Some(self.inner[index.index + 1][2]))}

\* Mutation of get_from_address: a hit returns the value of the first entry,
\* not of the entry at the index found.
get_from_address_first(self, address) ==
    IF ~assert_normalized(self) THEN {Panics(self, NotNormalized)}
    ELSE LET index == search_address(self.inner, address)
         IN  IF index.fault # NoFault THEN {Panics(self, index.fault)}
             ELSE IF ~index.found THEN {Returns(self.inner, self.dirty, None)}
             ELSE {Returns(self.inner, self.dirty, Some(self.inner[1][2]))}

\* IpAddrBlockMap::get_from_address
get_from_address(self, address) ==
    IF ~assert_normalized(self) THEN {Panics(self, NotNormalized)}
    ELSE LET index == search_address(self.inner, address)
         IN  IF index.fault # NoFault THEN {Panics(self, index.fault)}
             ELSE IF ~index.found THEN {Returns(self.inner, self.dirty, None)}
             ELSE {Returns(self.inner, self.dirty, Some(self.inner[index.index + 1][2]))}

\* IpAddrBlockMap::get_from_address_mut
get_from_address_mut(self, address) ==
    IF ~assert_normalized(self) THEN {Panics(self, NotNormalized)}
    ELSE LET index == search_address(self.inner, address)
         IN  IF index.fault # NoFault THEN {Panics(self, index.fault)}
             ELSE IF ~index.found THEN {Returns(self.inner, self.dirty, None)}
             ELSE {Returns(self.inner, self.dirty, Some(self.inner[index.index + 1][2]))}

\* IpAddrBlockMap::get_from_block
get_from_block(self, block) ==
    IF ~assert_normalized(self) THEN {Panics(self, NotNormalized)}
    ELSE LET index == search_block(self.inner, block)
         IN  IF ~index.found THEN {Returns(self.inner, self.dirty, None)}
             ELSE {Returns(self.inner, self.dirty, Some(self.inner[index.index + 1][2]))}

\* IpAddrBlockMap::get_from_block_mut
get_from_block_mut(self, block) ==
    IF ~assert_normalized(self) THEN {Panics(self, NotNormalized)}
    ELSE LET index == search_block(self.inner, block)
         IN  IF ~index.found THEN {Returns(self.inner, self.dirty, None)}
             ELSE {Returns(self.inner, self.dirty, Some(self.inner[index.index + 1][2]))}

\* Mutation of normalize: the sort left out.
normalize_without_sort(self) == {Returns(dedup_by(self.inner), FALSE, None)}

\* IpAddrBlockMap::normalize: dedup_by, THEN sort_unstable_by_key, then the
\* flag is cleared (shrink_to_fit changes the capacity only).
normalize(self) ==
    {Returns(sorted, FALSE, None) : sorted \in sort_unstable_by_key(dedup_by(self.inner))}

\* Mutation of insert_unstable: the search runs on a dirty map as well.
insert_unstable_always_searching(self, block, value) ==
    LET index == search_block(self.inner, block)
        previous == IF index.found THEN Some(self.inner[index.index + 1][2]) ELSE None
        removed == IF index.found THEN swap_remove(self.inner, index.index) ELSE self.inner
    IN  {Returns(Append(removed, <<block, value>>), TRUE, previous)}

\* IpAddrBlockMap::insert_unstable
insert_unstable(self, block, value) ==
    LET index == IF self.dirty THEN NotFound(0) ELSE search_block(self.inner, block)
        previous == IF index.found THEN Some(self.inner[index.index + 1][2]) ELSE None
        removed == IF index.found THEN swap_remove(self.inner, index.index) ELSE self.inner
    IN  {Returns(Append(removed, <<block, value>>), TRUE, previous)}

\* Mutation of remove_unstable: the flag is set after the unordered removal.
remove_unstable_marks_dirty(self, block) ==
    IF ~assert_normalized(self) THEN {Panics(self, NotNormalized)}
    ELSE LET index == search_block(self.inner, block)
         IN  IF ~index.found THEN {Returns(self.inner, self.dirty, None)}
             ELSE {Returns(swap_remove(self.inner, index.index), TRUE,
                           Some(self.inner[index.index + 1][2]))}

\* Mutation of remove_unstable: the ordered Vec::remove, not swap_remove.
remove_unstable_shifting(self, block) ==
    IF ~assert_normalized(self) THEN {Panics(self, NotNormalized)}
    ELSE LET index == search_block(self.inner, block)
         IN  IF ~index.found THEN {Returns(self.inner, self.dirty, None)}
             ELSE {Returns(vec_remove(self.inner, index.index), self.dirty,
                           Some(self.inner[index.index + 1][2]))}

\* IpAddrBlockMap::remove_unstable
remove_unstable(self, block) ==
    IF ~assert_normalized(self) THEN {Panics(self, NotNormalized)}
    ELSE LET index == search_block(self.inner, block)
         IN  IF ~index.found THEN {Returns(self.inner, self.dirty, None)}
             ELSE {Returns(swap_remove(self.inner, index.index), self.dirty,
                           Some(self.inner[index.index + 1][2]))}

\* The map after `if self.dirty { self.normalize(); }`
normalized_if_dirty(self) ==
    IF self.dirty THEN {Map(o.inner, o.dirty) : o \in normalize(self)} ELSE {self}

\* Mutation of insert: a new entry is pushed at the end, not at its index.
insert_appending(self, block, value) ==
    {LET index == search_block(m.inner, block)
     IN  IF index.found
         THEN Returns(vec_replace(m.inner, index.index, <<block, value>>), m.dirty,
                      Some(m.inner[index.index + 1][2]))
         ELSE Returns(Append(m.inner, <<block, value>>), m.dirty, None)
     : m \in normalized_if_dirty(self)}

\* Mutation of insert: the map is not normalized first when it is dirty.
insert_without_normalize(self, block, value) ==
    LET index == search_block(self.inner, block)
    IN  IF index.found
        THEN {Returns(vec_replace(self.inner, index.index, <<block, value>>), self.dirty,
                      Some(self.inner[index.index + 1][2]))}
        ELSE {Returns(vec_insert(self.inner, index.index, <<block, value>>), self.dirty, None)}

\* IpAddrBlockMap::insert
insert(self, block, value) ==
    {LET index == search_block(m.inner, block)
     IN  IF index.found
         THEN Returns(vec_replace(m.inner, index.index, <<block, value>>), m.dirty,
                      Some(m.inner[index.index + 1][2]))
         ELSE Returns(vec_insert(m.inner, index.index, <<block, value>>), m.dirty, None)
     : m \in normalized_if_dirty(self)}

\* Mutation of remove: the unordered Vec::swap_remove, not Vec::remove.
remove_swapping(self, block) ==
    {LET index == search_block(m.inner, block)
     IN  IF ~index.found THEN Returns(m.inner, m.dirty, None)
         ELSE Returns(swap_remove(m.inner, index.index), m.dirty,
                      Some(m.inner[index.index + 1][2]))
     : m \in normalized_if_dirty(self)}

\* IpAddrBlockMap::remove
remove(self, block) ==
    {LET index == search_block(m.inner, block)
     IN  IF ~index.found THEN Returns(m.inner, m.dirty, None)
         ELSE Returns(vec_remove(m.inner, index.index), m.dirty,
                      Some(m.inner[index.index + 1][2]))
     : m \in normalized_if_dirty(self)}

\* Mutation of clear: the entries are dropped, the flag is left as it was.
clear_keeping_flag(self) == {Returns(<<>>, self.dirty, None)}

\* IpAddrBlockMap::clear
clear(self) == {Returns(<<>>, FALSE, None)}

\* IpAddrBlockMap::blocks
blocks(self) ==
    IF ~assert_normalized(self) THEN {Panics(self, NotNormalized)}
    ELSE {Returns(self.inner, self.dirty, [i \in 1 .. Len(self.inner) |-> self.inner[i][1]])}

\* IpAddrBlockMap::values
values(self) ==
    IF ~assert_normalized(self) THEN {Panics(self, NotNormalized)}
    ELSE {Returns(self.inner, self.dirty, [i \in 1 .. Len(self.inner) |-> self.inner[i][2]])}

\* IpAddrBlockMap::values_mut
values_mut(self) ==
    IF ~assert_normalized(self) THEN {Panics(self, NotNormalized)}
    ELSE {Returns(self.inner, self.dirty, [i \in 1 .. Len(self.inner) |-> self.inner[i][2]])}

\* IpAddrBlockMap::iter
iter(self) ==
    IF ~assert_normalized(self) THEN {Panics(self, NotNormalized)}
    ELSE {Returns(self.inner, self.dirty, self.inner)}

\* IpAddrBlockMap::iter_mut
iter_mut(self) ==
    IF ~assert_normalized(self) THEN {Panics(self, NotNormalized)}
    ELSE {Returns(self.inner, self.dirty, self.inner)}

\* IntoIterator::into_iter: the map is moved into the iterator; what the
\* caller holds afterwards is modelled as a fresh, empty map.
into_iter(self) ==
    IF ~assert_normalized(self) THEN {Panics(self, NotNormalized)}
    ELSE {Returns(<<>>, FALSE, self.inner)}

\* FromIterator::from_iter
from_iter(items) == normalize(Map(items, TRUE))

\* Extend::extend
extend(self, items) == normalize(Map(self.inner \o items, self.dirty))

(***************************************************************************)
(* The caller. One call at a time: a call is made when the caller is idle, *)
(* `call` then holds the call with what it returned, and Return hands      *)
(* control back. A call that panicked never returns: the process is gone.  *)
(***************************************************************************)
Idle == [name |-> "idle", arg |-> <<>>, ret |-> None, fault |-> NoFault]
Self == Map(inner, dirty)
Called(name, arg, o) == [name |-> name, arg |-> arg, ret |-> o.ret, fault |-> o.fault]

Do(name, arg, outcomes) ==
    /\ call.name = "idle"
    /\ \E o \in outcomes :
        /\ Len(o.inner) <= MaxLen
        /\ inner' = o.inner
        /\ dirty' = o.dirty
        /\ call' = Called(name, arg, o)
    /\ UNCHANGED <<debug_assertions, search>>

Return ==
    /\ call.name # "idle"
    /\ call.fault = NoFault
    /\ call' = Idle
    /\ UNCHANGED <<inner, dirty, debug_assertions, search>>

Build ==
    /\ debug_assertions \in BOOLEAN
    /\ search \in {"early_exit", "no_early_exit"}

Constructed(name, arg, outcomes) ==
    \E o \in outcomes :
        /\ inner = o.inner
        /\ dirty = o.dirty
        /\ call = Called(name, arg, o)

New == Constructed("new", <<>>, new)
WithCapacity == \E n \in 0 .. MaxCapacity : Constructed("with_capacity", <<n>>, with_capacity(n))
FromIter == \E items \in SeqsUpTo(Entries, MaxLen) : Constructed("from_iter", items, from_iter(items))

ContainsAddress == \E c \in Addr : Do("contains_address", <<c>>, contains_address(Self, c))
ContainsBlock == \E b \in Blocks : Do("contains_block", <<b>>, contains_block(Self, b))
LenOf == Do("len", <<>>, len(Self))
IsEmpty == Do("is_empty", <<>>, is_empty(Self))
GetFromAddress == \E c \in Addr : Do("get_from_address", <<c>>, get_from_address(Self, c))
GetFromAddressMut == \E c \in Addr : Do("get_from_address_mut", <<c>>, get_from_address_mut(Self, c))
GetFromBlock == \E b \in Blocks : Do("get_from_block", <<b>>, get_from_block(Self, b))
GetFromBlockMut == \E b \in Blocks : Do("get_from_block_mut", <<b>>, get_from_block_mut(Self, b))
Normalize == Do("normalize", <<>>, normalize(Self))
InsertUnstable == \E e \in Entries : Do("insert_unstable", e, insert_unstable(Self, e[1], e[2]))
RemoveUnstable == \E b \in Blocks : Do("remove_unstable", <<b>>, remove_unstable(Self, b))
Insert == \E e \in Entries : Do("insert", e, insert(Self, e[1], e[2]))
Remove == \E b \in Blocks : Do("remove", <<b>>, remove(Self, b))
Clear == Do("clear", <<>>, clear(Self))
BlocksOf == Do("blocks", <<>>, blocks(Self))
ValuesOf == Do("values", <<>>, values(Self))
ValuesMut == Do("values_mut", <<>>, values_mut(Self))
Iter == Do("iter", <<>>, iter(Self))
IterMut == Do("iter_mut", <<>>, iter_mut(Self))
IntoIter == Do("into_iter", <<>>, into_iter(Self))
Extend ==
    \E items \in SeqsUpTo(Entries, MaxLen - Len(inner)) : Do("extend", items, extend(Self, items))

Init ==
    /\ Build
    /\ (New \/ WithCapacity \/ FromIter)

Next ==
    \/ ContainsAddress
    \/ ContainsBlock
    \/ LenOf
    \/ IsEmpty
    \/ GetFromAddress
    \/ GetFromAddressMut
    \/ GetFromBlock
    \/ GetFromBlockMut
    \/ Normalize
    \/ InsertUnstable
    \/ RemoveUnstable
    \/ Insert
    \/ Remove
    \/ Clear
    \/ BlocksOf
    \/ ValuesOf
    \/ ValuesMut
    \/ Iter
    \/ IterMut
    \/ IntoIter
    \/ Extend
    \/ Return

Spec == Init /\ [][Next]_vars

(***************************************************************************)
(* The block type on its own: every constructor and comparison applied to  *)
(* every pair of addresses.                                                *)
(***************************************************************************)
Apply(name, arg, ret, fault) ==
    /\ call' = [name |-> name, arg |-> arg, ret |-> ret, fault |-> fault]
    /\ UNCHANGED <<inner, dirty, debug_assertions, search>>

TryNew ==
    \E p \in Pairs :
        LET r == try_new(p[1], p[2])
        IN  Apply("try_new", p, IF r.ok THEN Some(r.block) ELSE None, NoFault)

NewBlock ==
    \E p \in Pairs :
        LET r == new_block(p[1], p[2])
        IN  Apply("new_block", p, IF r.fault = NoFault THEN Some(r.block) ELSE None, r.fault)

PartialCmp ==
    \E b \in Pairs, c \in Addr :
        LET r == partial_cmp_addr(b, c)
        IN  Apply("partial_cmp", <<b, c>>, IF r = Unreachable THEN None ELSE Some(r),
                  IF r = Unreachable THEN Unreachable ELSE NoFault)

Cmp == \E a \in Pairs, b \in Pairs : Apply("cmp", <<a, b>>, Some(cmp(a, b)), NoFault)

\* Result<IpAddrBlock<A>, EmptyBlockError> as the caller sees it.
Ok(r) == IF r.ok THEN Some(r.block) ELSE None

TryFromPair == \E p \in Pairs : Apply("try_from_pair", p, Ok(try_from_pair(p)), NoFault)

From == \E c \in Addr : Apply("from", <<c>>, Some(from(c)), NoFault)

FromSlice == \E s \in SeqsUpTo(Addr, MaxLen) : Apply("from_slice", s, Ok(from_slice(s)), NoFault)

FromMutSlice ==
    \E s \in SeqsUpTo(Addr, MaxLen) : Apply("from_mut_slice", s, Ok(from_mut_slice(s)), NoFault)

TryFromSlice ==
    \E s \in SeqsUpTo(Addr, MaxLen) : Apply("try_from_slice", s, Ok(try_from_slice(s)), NoFault)

EmptyInit == Build /\ New
BlockNext ==
    \/ TryNew
    \/ NewBlock
    \/ PartialCmp
    \/ Cmp
    \/ TryFromPair
    \/ From
    \/ FromSlice
    \/ FromMutSlice
    \/ TryFromSlice
BlockSpec == EmptyInit /\ [][BlockNext]_vars

(***************************************************************************)
(* geolocate-core: CountryCode of src/geolocate-core/src/country.rs. A     *)
(* string is the sequence of its characters (str::chars); utf8_len gives   *)
(* the bytes a character takes in the string.                              *)
(***************************************************************************)
MaxStrLen == 5

AsciiUppercase ==
    {"A", "B", "C", "D", "E", "F", "G", "H", "I", "J", "K", "L", "M",
     "N", "O", "P", "Q", "R", "S", "T", "U", "V", "W", "X", "Y", "Z"}
\* The characters the strings to parse are made of: upper case, lower case, a
\* digit, and a letter outside ASCII that takes two bytes.
Chars == {"A", "Z", "a", "1", "É"}
Strings == SeqsUpTo(Chars, MaxStrLen)

\* char::len_utf8
len_utf8(c) == IF c = "É" THEN 2 ELSE 1

\* str::len: the length in bytes
RECURSIVE str_len(_)
str_len(value) ==
    IF Len(value) = 0 THEN 0 ELSE len_utf8(value[1]) + str_len(SubSeq(value, 2, Len(value)))

\* char::is_ascii_uppercase
is_ascii_uppercase(c) == c \in AsciiUppercase

\* enum CountryCode
Alpha2(array) == <<"Alpha2", array>>
Alpha3(array) == <<"Alpha3", array>>
Alpha4(array) == <<"Alpha4", array>>
Unassigned == <<"Unassigned">>

\* Result<CountryCode, InvalidCodeError>
CodeOk(code) == <<"Ok", code>>
InvalidCodeError(value) == <<"Err", value>>

\* fn array<const N: usize>(iter) inside from_str: the next N characters, or
\* None when one of them is not an ASCII uppercase letter.
array(chars, N) ==
    LET taken == SubSeq(chars, 1, N)
    IN  IF \A i \in 1 .. N : is_ascii_uppercase(taken[i]) THEN Some(taken) ELSE None

\* Mutation of from_str: the length is taken in bytes (str::len), not in
\* characters.
from_str_by_bytes(value) ==
    LET count == str_len(value)
        a == IF count \in {2, 3, 4} /\ count <= Len(value) THEN array(value, count) ELSE None
    IN  IF count = 2 THEN CodeOk(IF a = None THEN Unassigned ELSE Alpha2(a[1]))
        ELSE IF count = 3 THEN CodeOk(IF a = None THEN Unassigned ELSE Alpha3(a[1]))
        ELSE IF count = 4 THEN CodeOk(IF a = None THEN Unassigned ELSE Alpha4(a[1]))
        ELSE InvalidCodeError(value)

\* impl FromStr for CountryCode
from_str(value) ==
    LET count == Len(value)
        a == IF count \in {2, 3, 4} THEN array(value, count) ELSE None
    IN  IF count = 2 THEN CodeOk(IF a = None THEN Unassigned ELSE Alpha2(a[1]))
        ELSE IF count = 3 THEN CodeOk(IF a = None THEN Unassigned ELSE Alpha3(a[1]))
        ELSE IF count = 4 THEN CodeOk(IF a = None THEN Unassigned ELSE Alpha4(a[1]))
        ELSE InvalidCodeError(value)

\* Mutation of display_code: the sentinel is written as one question mark.
display_code_short_sentinel(code) == IF code = Unassigned THEN <<"?">> ELSE code[2]

\* impl Display for CountryCode
display_code(code) == IF code = Unassigned THEN <<"?", "?">> ELSE code[2]

\* impl Serialize for CountryCode: serialize_str(&self.to_string())
serialize_code(code) == display_code(code)

\* CodeVisitor::visit_str of impl Deserialize for CountryCode
CodeVisitor_visit_str(v) ==
    IF from_str(v)[1] = "Ok" THEN from_str(v) ELSE <<"Err", "invalid value", v>>

\* The code values: arrays of 2, 3 and 4 uppercase ASCII letters, and the
\* sentinel.
SampleUppercase == Chars \cap AsciiUppercase
Codes ==
    {Alpha2(a) : a \in [1 .. 2 -> SampleUppercase]}
        \cup {Alpha3(a) : a \in [1 .. 3 -> SampleUppercase]}
        \cup {Alpha4(a) : a \in [1 .. 4 -> SampleUppercase]}
        \cup {Unassigned}

\* One parse at a time: the caller parses a string when it is idle.
FromStr ==
    /\ call.name = "idle"
    /\ \E value \in Strings : Apply("from_str", value, from_str(value), NoFault)

ToString ==
    /\ call.name = "idle"
    /\ \E code \in Codes : Apply("to_string", code, display_code(code), NoFault)

Serialize ==
    /\ call.name = "idle"
    /\ \E code \in Codes : Apply("serialize", code, serialize_code(code), NoFault)

CodeVisitStr ==
    /\ call.name = "idle"
    /\ \E v \in Strings : Apply("code_visit_str", v, CodeVisitor_visit_str(v), NoFault)

CountryNext == FromStr \/ ToString \/ Serialize \/ CodeVisitStr \/ Return
CountrySpec == EmptyInit /\ [][CountryNext]_vars

(***************************************************************************)
(* geolocate-cli: the address deserializers of src/geolocate-cli/src/ip.rs. *)
(* An unsigned integer wider than the checker's is the sequence of its     *)
(* 16-bit limbs, most significant first: a u32 has 2 limbs, a u128 has 8.  *)
(* An Ipv4Addr is its 4 octets, an Ipv6Addr its 8 segments, text is the    *)
(* sequence of its characters.                                             *)
(***************************************************************************)
Limb == 0 .. 65535

RECURSIVE pow2(_)
pow2(n) == IF n = 0 THEN 1 ELSE 2 * pow2(n - 1)

\* (v >> shift) & (2^bits - 1) for bits <= 16 and shift below the width of v:
\* the bits of v from bit `shift` upwards, taken from the limb that holds bit
\* `shift` and, when they run over its top, from the next limb up.
shr_and_mask(v, shift, bits) ==
    LET k == Len(v) - (shift \div 16)
        s == shift % 16
        low == v[k] \div pow2(s)
        high == IF s = 0 \/ k = 1 THEN 0 ELSE (v[k - 1] % pow2(s)) * pow2(16 - s)
    IN  (low + high) % pow2(bits)

OverflowFault == "attempt to subtract with overflow"

DeOk(addr) == [fault |-> NoFault, ret |-> <<"Ok", addr>>]
DeErr(text) == [fault |-> NoFault, ret |-> <<"Err", text>>]
DePanic(f) == [fault |-> f, ret |-> None]

\* Mutation of Ipv4Visitor_visit_u32: the shift grows with the index, the
\* least significant byte comes first.
Ipv4Visitor_visit_u32_le(v) ==
    DeOk([i \in 1 .. 4 |-> shr_and_mask(v, (i - 1) * 8, 8)])

\* Ipv4Visitor::visit_u32: octet `index` is (v >> (3 - index) * 8) & 0xFF.
Ipv4Visitor_visit_u32(v) ==
    DeOk([i \in 1 .. 4 |-> shr_and_mask(v, (3 - (i - 1)) * 8, 8)])

\* The shift of segment `index` in Ipv6Visitor::visit_u128,
\* (3 - index) * CHUNK_SIZE on usize, when overflow is not checked: the
\* subtraction and the product wrap modulo 2^64 and the shift of a u128 takes
\* its amount modulo 128; 128 divides 2^64, so the amount is computed modulo
\* 128 throughout.
wrapped_shift(index) == (((3 + 128) - index) * 16) % 128

\* Ipv6Visitor::visit_u128: segment `index` is (v >> (3 - index) * 16) & 0xFFFF
\* for index 0 to 7. 3 - index overflows usize from index 4 on: a panic where
\* overflow is checked (the profiles that keep debug assertions), a wrapped
\* shift where it is not.
Ipv6Visitor_visit_u128(v) ==
    IF debug_assertions THEN DePanic(OverflowFault)
    ELSE DeOk([i \in 1 .. 8 |->
                 shr_and_mask(v, IF i - 1 <= 3 THEN (3 - (i - 1)) * 16 ELSE wrapped_shift(i - 1), 16)])

\* Text.
Digits == <<"0", "1", "2", "3", "4", "5", "6", "7", "8", "9", "a", "b", "c", "d", "e", "f">>

\* Display of an unsigned number in the radix: no leading zeros.
RECURSIVE fmt_radix(_, _)
fmt_radix(n, radix) ==
    IF n < radix THEN <<Digits[n + 1]>>
    ELSE Append(fmt_radix(n \div radix, radix), Digits[(n % radix) + 1])

RECURSIVE join(_, _)
join(parts, sep) ==
    IF Len(parts) = 0 THEN <<>>
    ELSE IF Len(parts) = 1 THEN parts[1]
    ELSE parts[1] \o <<sep>> \o join(SubSeq(parts, 2, Len(parts)), sep)

\* The parts of the text between the separators.
RECURSIVE split(_, _)
split(text, sep) ==
    IF \A i \in 1 .. Len(text) : text[i] # sep THEN <<text>>
    ELSE LET i == CHOOSE i \in 1 .. Len(text) :
                    text[i] = sep /\ \A j \in 1 .. i - 1 : text[j] # sep
         IN  <<SubSeq(text, 1, i - 1)>> \o split(SubSeq(text, i + 1, Len(text)), sep)

is_digit(c, radix) == \E d \in 1 .. radix : Digits[d] = c
digit_value(c, radix) == (CHOOSE d \in 1 .. radix : Digits[d] = c) - 1

RECURSIVE number_of(_, _)
number_of(part, radix) ==
    IF Len(part) = 0 THEN 0
    ELSE number_of(SubSeq(part, 1, Len(part) - 1), radix) * radix
            + digit_value(part[Len(part)], radix)

\* Display for Ipv4Addr: the four octets in decimal, joined by dots.
ipv4_to_string(addr) == join([i \in 1 .. 4 |-> fmt_radix(addr[i], 10)], ".")

\* Ipv4Addr::from_str: four parts between dots, each 1 to 3 decimal digits
\* with no leading zero and a value of at most 255.
ipv4_from_str(text) ==
    LET parts == split(text, ".")
        valid(part) ==
            /\ Len(part) \in 1 .. 3
            /\ \A i \in 1 .. Len(part) : is_digit(part[i], 10)
            /\ (Len(part) > 1 => part[1] # "0")
            /\ number_of(part, 10) <= 255
    IN  IF Len(parts) = 4 /\ \A i \in 1 .. 4 : valid(parts[i])
        THEN Some([i \in 1 .. 4 |-> number_of(parts[i], 10)])
        ELSE None

\* Ipv4Visitor::visit_str
Ipv4Visitor_visit_str(v) ==
    LET addr == ipv4_from_str(v)
    IN  IF addr = None THEN DeErr(v) ELSE DeOk(addr[1])

\* The colon-hex text of an Ipv6Addr written in full: the eight segments in
\* hexadecimal, joined by colons.
ipv6_to_string(addr) == join([i \in 1 .. 8 |-> fmt_radix(addr[i], 16)], ":")

\* Ipv6Addr::from_str on text without `::` and without an IPv4 tail: eight
\* parts between colons, each 1 to 4 hexadecimal digits.
ipv6_from_str(text) ==
    LET parts == split(text, ":")
        valid(part) ==
            /\ Len(part) \in 1 .. 4
            /\ \A i \in 1 .. Len(part) : is_digit(part[i], 16)
    IN  IF Len(parts) = 8 /\ \A i \in 1 .. 8 : valid(parts[i])
        THEN Some([i \in 1 .. 8 |-> number_of(parts[i], 16)])
        ELSE None

\* Ipv6Visitor::visit_str
Ipv6Visitor_visit_str(v) ==
    LET addr == ipv6_from_str(v)
    IN  IF addr = None THEN DeErr(v) ELSE DeOk(addr[1])

\* The integers and the addresses the deserializers are given.
Limbs4 == {0, 1, 258, 772, 49320, 65535}
U32 == {<<hi, lo>> : hi \in Limbs4, lo \in Limbs4}
\* Ipv4Addr::from(u32): the big-endian bytes of the integer
ipv4_of_u32(v) == <<v[1] \div 256, v[1] % 256, v[2] \div 256, v[2] % 256>>

Limbs6 == {0, 1, 65535}
U128 ==
    {hi \o lo : hi \in [1 .. 4 -> Limbs6 \ {1}], lo \in [1 .. 4 -> Limbs6 \ {65535}]}
\* Ipv6Addr::from(u128): the big-endian segments of the integer
ipv6_of_u128(v) == v

Deserialize(name, arg, o) ==
    /\ call.name = "idle"
    /\ Apply(name, arg, o.ret, o.fault)

VisitU32 == \E v \in U32 : Deserialize("visit_u32", v, Ipv4Visitor_visit_u32(v))

Ipv4VisitStr ==
    \E v \in U32 :
        LET text == ipv4_to_string(ipv4_of_u32(v))
        IN  Deserialize("ipv4_visit_str", text, Ipv4Visitor_visit_str(text))

VisitU128 == \E v \in U128 : Deserialize("visit_u128", v, Ipv6Visitor_visit_u128(v))

Ipv6VisitStr ==
    \E v \in U128 :
        LET text == ipv6_to_string(ipv6_of_u128(v))
        IN  Deserialize("ipv6_visit_str", text, Ipv6Visitor_visit_str(text))

Ipv4Next == VisitU32 \/ Ipv4VisitStr \/ Return
Ipv4Spec == EmptyInit /\ [][Ipv4Next]_vars

Ipv6Next == VisitU128 \/ Ipv6VisitStr \/ Return
Ipv6Spec == EmptyInit /\ [][Ipv6Next]_vars

(***************************************************************************)
(* geolocate-cli: the bulk load of src/geolocate-cli/src/map.rs. A row of   *)
(* the file is <<start, end, country>> as the schema deserializes it, a     *)
(* Country is <<name, code, numeric>>, and the values of the loaded map are *)
(* MaybeCountry.                                                           *)
(***************************************************************************)
DEFAULT_CAPACITY == 256

\* enum MaybeCountry
Present(country) == <<"Present", country>>
Missing(code) == <<"Missing", code>>

\* The reference table read from the country source (main.rs:111-113).
Chad == <<(<<"C", "h", "a", "d">>), Alpha2(<<"T", "D">>), 148>>
Chile == <<(<<"C", "h", "i", "l", "e">>), Alpha2(<<"C", "L">>), 152>>
Countries == {Chad, Chile}

\* The closure `resolve` of main: countries.get(&code).cloned()
resolve_code(code) ==
    IF \E c \in Countries : c[2] = code
    THEN Some(CHOOSE c \in Countries : c[2] = code)
    ELSE None

\* The rows a file can hold: any pair of addresses, and a country column that
\* resolves ("TD"), does not resolve ("ZZ"), is the Tor file's "??" (parsed
\* as Unassigned) or is not a short code at all ("T").
CountryColumn == {<<"T", "D">>, <<"Z", "Z">>, <<"?", "?">>, <<"T">>}
Rows == Addr \X Addr \X CountryColumn

\* The closure `compute` of parse_ipv4_map_file / parse_ipv6_map_file:
\* try_new(start, end)?, then CountryCode::from_str(&country)?
compute(row) ==
    LET block == try_new(row[1], row[2])
        code == from_str(row[3])
    IN  IF ~block.ok THEN <<"Err", "the given range is empty or overlapping">>
        ELSE IF code[1] = "Err" THEN code
        ELSE <<"Ok", <<block.block, code[2]>>>>

\* resolve(code).map_or(MaybeCountry::Missing(code), MaybeCountry::Present)
maybe_country(code) ==
    LET country == resolve_code(code)
    IN  IF country = None THEN Missing(code) ELSE Present(country[1])

LoadOk(o) == [inner |-> o.inner, dirty |-> o.dirty, ret |-> <<"Ok">>]
LoadErr(self, e) == [inner |-> self.inner, dirty |-> self.dirty, ret |-> e]

\* Mutation of load_row: a row whose code does not resolve is skipped.
load_row_skipping_missing(self, row) ==
    LET computed == compute(row)
    IN  IF computed[1] = "Err" THEN {LoadErr(self, computed)}
        ELSE IF resolve_code(computed[2][2]) = None
        THEN {[inner |-> self.inner, dirty |-> self.dirty, ret |-> <<"Ok">>]}
        ELSE {LoadOk(o) : o \in insert_unstable(self, computed[2][1],
                                                maybe_country(computed[2][2]))}

\* Mutation of load_row: a row that compute rejects is skipped and the loop
\* goes on.
load_row_skipping_malformed(self, row) ==
    LET computed == compute(row)
    IN  IF computed[1] = "Err" THEN {LoadOk(self)}
        ELSE {LoadOk(o) : o \in insert_unstable(self, computed[2][1],
                                                maybe_country(computed[2][2]))}

\* One turn of the loop of parse_ip_map: compute(entry?)?, resolve, then
\* map.insert_unstable(block, country). An error leaves the function.
load_row(self, row) ==
    LET computed == compute(row)
    IN  IF computed[1] = "Err" THEN {LoadErr(self, computed)}
        ELSE {LoadOk(o) : o \in insert_unstable(self, computed[2][1],
                                                maybe_country(computed[2][2]))}

\* Mutation of load_end: the map is returned as the loop left it.
load_end_without_normalize(self) == {LoadOk(self)}

\* The end of parse_ip_map: map.normalize(); Ok(map)
load_end(self) == {LoadOk(o) : o \in normalize(self)}

\* parse_ip_map step by step. `call` is the point the function is at: the
\* map created (with_capacity), the last row read (load_row), or the
\* function left (parse_ip_map, with Ok or the error).
Loading == call.name \in {"with_capacity", "load_row"}

LoadInit ==
    /\ Build
    /\ Constructed("with_capacity", <<DEFAULT_CAPACITY>>, with_capacity(DEFAULT_CAPACITY))

LoadStep(name, arg, outcomes) ==
    /\ Loading
    /\ \E o \in outcomes :
        /\ Len(o.inner) <= MaxLen
        /\ inner' = o.inner
        /\ dirty' = o.dirty
        /\ call' = [name |-> IF o.ret = <<"Ok">> THEN name ELSE "parse_ip_map",
                    arg |-> arg, ret |-> o.ret, fault |-> NoFault]
    /\ UNCHANGED <<debug_assertions, search>>

LoadRow == \E row \in Rows : LoadStep("load_row", row, load_row(Self, row))

LoadEnd == LoadStep("parse_ip_map", <<>>, load_end(Self))

\* The caller has the map: main goes on to the command.
LoadReturn ==
    /\ call.name = "parse_ip_map"
    /\ call.ret = <<"Ok">>
    /\ Return

\* The command has its answer from the map.
QueryReturn ==
    /\ call.name = "get_from_address"
    /\ Return

\* The load, and the point queries of the command on the map it returns.
LoadNext == LoadRow \/ LoadEnd \/ LoadReturn \/ GetFromAddress \/ QueryReturn
LoadSpec == LoadInit /\ [][LoadNext]_vars

(***************************************************************************)
(* Callers that keep to one discipline.                                    *)
(***************************************************************************)
overlaps(a, b) == a[1] <= b[2] /\ b[1] <= a[2]
pairwise_disjoint(v) == \A i, j \in 1 .. Len(v) : i # j => ~overlaps(v[i][1], v[j][1])
is_sorted(v) == \A i \in 1 .. Len(v) - 1 : key_le(v[i][1], v[i + 1][1])
unique_ranges(v) == \A i, j \in 1 .. Len(v) : i # j => v[i][1] # v[j][1]
entries_of(v) == {v[i] : i \in 1 .. Len(v)}
count_of(v, r) == Cardinality({i \in 1 .. Len(v) : v[i][1] = r})

\* A sorted insert of a block that overlaps no block inserted before it.
InsertDisjoint ==
    \E e \in Entries :
        /\ \A i \in 1 .. Len(inner) : ~overlaps(inner[i][1], e[1])
        /\ Do("insert", e, insert(Self, e[1], e[2]))

\* Sorted inserts of pairwise-non-overlapping blocks into an empty map, and
\* point queries.
SortedInsertNext == InsertDisjoint \/ GetFromAddress \/ Return
SortedInsertSpec == EmptyInit /\ [][SortedInsertNext]_vars

\* The bulk load (as parse_ip_map does it): fast appends into an empty map,
\* then one normalize, after which the load is over.
ReturnToLoad == call.name \in {"new", "insert_unstable"} /\ Return
BulkLoadNext == InsertUnstable \/ ReturnToLoad \/ Normalize
BulkLoadSpec == EmptyInit /\ [][BulkLoadNext]_vars

\* A fast append of a block that overlaps no block appended before it.
InsertUnstableDisjoint ==
    \E e \in Entries :
        /\ \A i \in 1 .. Len(inner) : ~overlaps(inner[i][1], e[1])
        /\ Do("insert_unstable", e, insert_unstable(Self, e[1], e[2]))

\* The bulk load of distinct, pairwise-non-overlapping blocks.
DisjointLoadNext == InsertUnstableDisjoint \/ ReturnToLoad \/ Normalize
DisjointLoadSpec == EmptyInit /\ [][DisjointLoadNext]_vars

\* The eager discipline: sorted inserts and removals of any blocks, and
\* exact-range queries; the map is normalized throughout.
NormalizedNext == Insert \/ Remove \/ GetFromBlock \/ Return
NormalizedSpec == EmptyInit /\ [][NormalizedNext]_vars

\* Sorted inserts of non-overlapping blocks, unordered removals and point
\* queries, with no normalize anywhere.
HazardNext == InsertDisjoint \/ RemoveUnstable \/ GetFromAddress \/ Return
HazardSpec == EmptyInit /\ [][HazardNext]_vars

\* The lazy discipline: fast appends and normalize in any order, so that an
\* append meets a pending map as well as a normalized one.
LazyNext == InsertUnstable \/ Normalize \/ Return
LazySpec == EmptyInit /\ [][LazyNext]_vars

\* The eager discipline with every lookup: sorted inserts and removals of any
\* blocks, overlapping ones included, exact-range and point queries.
LookupNext ==
    \/ Insert
    \/ Remove
    \/ GetFromBlock
    \/ ContainsBlock
    \/ GetFromAddress
    \/ Return
LookupSpec == EmptyInit /\ [][LookupNext]_vars

\* A map collected from an iterator of any entries, then queried by exact
\* range.
FromIterInit == Build /\ FromIter
FromIterNext == GetFromBlock \/ Return
FromIterSpec == FromIterInit /\ [][FromIterNext]_vars

\* A map built by new or with_capacity, filled by sorted inserts and fast
\* appends of non-overlapping blocks, and cleared at any point.
ClearInit == Build /\ (New \/ WithCapacity)
ClearNext == InsertDisjoint \/ InsertUnstableDisjoint \/ Clear \/ Return
ClearSpec == ClearInit /\ [][ClearNext]_vars

\* The comparison of a block against a coordinate alone, for every pair
\* (start, end) that the unchecked constructor can build.
ComparisonNext == PartialCmp \/ Return
ComparisonSpec == EmptyInit /\ [][ComparisonNext]_vars

\* Every way to build and change a map except remove_unstable.
OrderedNext ==
    Extend \/ Insert \/ Remove \/ InsertUnstable \/ Normalize \/ Clear \/ Return
OrderedSpec == Init /\ [][OrderedNext]_vars

(***************************************************************************)
(* geolocate-cli: the resolve command. main.rs dispatches to its own        *)
(* `resolve`; command/resolve.rs holds `run`. A command is                  *)
(* [address, v4, v6, name, alpha_2, numeric] with address <<family, c>>;    *)
(* the map is the table of the address's family. A line of output is        *)
(* <<stream, fixed text, displayed value>>.                                 *)
(***************************************************************************)
Families == {"V4", "V6"}
Commands ==
    [address : Families \X Addr, v4 : BOOLEAN, v6 : BOOLEAN,
     name : BOOLEAN, alpha_2 : BOOLEAN, numeric : BOOLEAN]
Arguments == [address : Families \X Addr, name : BOOLEAN, code : BOOLEAN, numeric : BOOLEAN]

println(text, value) == <<"stdout", text, value>>
eprintln(text, value) == <<"stderr", text, value>>
lines(wanted) == IF wanted[1] THEN <<wanted[2]>> ELSE <<>>

CmdOk(out) == [ret |-> <<"Ok">>, out |-> out, fault |-> NoFault]
Bail(message) == [ret |-> <<"Err", message>>, out |-> <<>>, fault |-> NoFault]
CmdPanic(f) == [ret |-> None, out |-> <<>>, fault |-> f]

\* The match on MaybeCountry of main.rs::resolve
resolve_output(command, country) ==
    IF country[1] = "Missing"
    THEN lines(<<command.name, eprintln("missing country name for alpha-2 code", display_code(country[2]))>>)
         \o lines(<<command.alpha_2, println("", display_code(country[2]))>>)
         \o lines(<<command.numeric, eprintln("missing numeric code for alpha-2 code", display_code(country[2]))>>)
    ELSE lines(<<command.name, println("", country[2][1])>>)
         \o lines(<<command.alpha_2, println("", display_code(country[2][2]))>>)
         \o lines(<<command.numeric, println("", fmt_radix(country[2][3], 10))>>)

\* main.rs::resolve
resolve(command, self) ==
    LET selected == \/ command.address[1] = "V4" /\ (command.v4 \/ ~command.v6)
                    \/ command.address[1] = "V6" /\ (command.v6 \/ ~command.v4)
    IN  IF ~command.name /\ ~command.alpha_2 /\ ~command.numeric THEN {CmdOk(<<>>)}
        ELSE IF ~selected THEN {Bail("invalid command arguments")}
        ELSE {IF o.fault # NoFault THEN CmdPanic(o.fault)
              ELSE IF o.ret = None THEN Bail("unmapped address provided")
              ELSE CmdOk(resolve_output(command, o.ret[1])) :
                    o \in get_from_address(self, command.address[2])}

\* The match on MaybeCountry of command/resolve.rs::run
run_output(arguments, country) ==
    IF country[1] = "Present"
    THEN lines(<<arguments.name, println("Country: ", country[2][1])>>)
         \o lines(<<arguments.code, println("Alpha-2: ", display_code(country[2][2]))>>)
         \o lines(<<arguments.numeric, println("Numeric: ", fmt_radix(country[2][3], 10))>>)
    ELSE lines(<<arguments.name, println("Country: N/A", <<>>)>>)
         \o lines(<<arguments.code, println("Alpha-2: ", display_code(country[2]))>>)
         \o lines(<<arguments.numeric, println("Numeric: N/A", <<>>)>>)

\* command/resolve.rs::run, on the map its parse_ipv4_map_file or
\* parse_ipv6_map_file call has loaded
run(arguments, self) ==
    LET name == arguments.name \/ (~arguments.code /\ ~arguments.numeric)
    IN  {IF o.fault # NoFault THEN CmdPanic(o.fault)
         ELSE IF o.ret = None THEN Bail("the given ip address is unmapped")
         ELSE CmdOk(run_output([arguments EXCEPT !.name = name], o.ret[1])) :
                o \in get_from_address(self, arguments.address[2])}

\* The command runs on the loaded map and the program ends with its result.
Command(name, arg, outcomes) ==
    /\ call.name = "idle"
    /\ \E o \in outcomes :
        call' = [name |-> name, arg |-> arg, ret |-> <<o.ret, o.out>>, fault |-> o.fault]
    /\ UNCHANGED <<inner, dirty, debug_assertions, search>>

Resolve == \E command \in Commands : Command("resolve", command, resolve(command, Self))
Run == \E arguments \in Arguments : Command("run", arguments, run(arguments, Self))

\* A row of a file whose blocks do not overlap.
LoadRowDisjoint ==
    \E row \in Rows :
        /\ \A i \in 1 .. Len(inner) : ~overlaps(inner[i][1], <<row[1], row[2]>>)
        /\ LoadStep("load_row", row, load_row(Self, row))

\* The program: the load of a file without overlapping blocks, then the
\* resolve command.
ResolveNext == LoadRowDisjoint \/ LoadEnd \/ LoadReturn \/ Resolve \/ Run
ResolveSpec == LoadInit /\ [][ResolveNext]_vars

(***************************************************************************)
(* geolocate-cli: the country filter of the list command                   *)
(* (src/geolocate-cli/src/command/list.rs).                                 *)
(***************************************************************************)
U16_MAX == 65535

\* The decimal digits as u16::from_str accumulates them: once the number is
\* past u16::MAX it stays there (the checked operations fail).
RECURSIVE checked_number(_)
checked_number(digits) ==
    IF Len(digits) = 0 THEN 0
    ELSE LET high == checked_number(SubSeq(digits, 1, Len(digits) - 1))
         IN  IF high > U16_MAX THEN high
             ELSE high * 10 + digit_value(digits[Len(digits)], 10)

\* value.parse::<u16>(): an optional plus sign, then one or more decimal
\* digits of a number that fits 16 bits.
parse_u16(value) ==
    LET digits == IF Len(value) > 0 /\ value[1] = "+" THEN Tail(value) ELSE value
    IN  IF Len(digits) = 0 \/ \E i \in 1 .. Len(digits) : ~is_digit(digits[i], 10) THEN None
        ELSE IF checked_number(digits) > U16_MAX THEN None
        ELSE Some(checked_number(digits))

\* enum Filter
FilterName(name) == <<"Name", name>>
FilterCode(code) == <<"Code", code>>
FilterNumeric(numeric) == <<"Numeric", numeric>>

\* impl From<&str> for Filter
Filter_from(value) ==
    IF parse_u16(value) # None THEN FilterNumeric(parse_u16(value)[1])
    ELSE IF from_str(value)[1] = "Ok" THEN FilterCode(from_str(value)[2])
    ELSE FilterName(value)

\* Filter::test
test(filter, country) ==
    IF filter[1] = "Name" THEN country[1] = filter[2]
    ELSE IF filter[1] = "Code" THEN country[2] = filter[2]
    ELSE country[3] = filter[2]

\* find_country: the first country of the iterator that passes the filter.
\* The iterator is over the values of a HashMap, in any order.
find_country(filter, countries) ==
    IF \E c \in countries : test(filter, c)
    THEN {<<"Ok", c>> : c \in {k \in countries : test(filter, k)}}
    ELSE {<<"Err", "unable to find country", filter>>}

\* The filter strings a user can give: the sampled strings, and the name, the
\* code and the numeric code of every country of the reference table.
FilterStrings ==
    Strings \cup {c[1] : c \in Countries} \cup {display_code(c[2]) : c \in Countries}
            \cup {fmt_radix(c[3], 10) : c \in Countries}

FilterFrom ==
    /\ call.name = "idle"
    /\ \E value \in FilterStrings : Apply("from", value, Filter_from(value), NoFault)

\* run_command with a country argument: Filter::from, then find_country.
FindCountry ==
    /\ call.name = "idle"
    /\ \E value \in FilterStrings :
        \E found \in find_country(Filter_from(value), Countries) :
            Apply("find_country", value, found, NoFault)

ListNext == FilterFrom \/ FindCountry \/ Return
ListSpec == EmptyInit /\ [][ListNext]_vars

(***************************************************************************)
(* Properties.                                                             *)
(***************************************************************************)
\* What a scan of all entries finds for coordinate c: the value of an entry
\* whose block contains c, or nothing.
expected_at(v, c) ==
    IF \E i \in 1 .. Len(v) : range_contains(v[i][1], c)
    THEN Some(v[CHOOSE i \in 1 .. Len(v) : range_contains(v[i][1], c)][2])
    ELSE None

C1_State ==
    /\ ~dirty
    /\ call.fault = NoFault
    /\ is_sorted(inner)
    /\ \A c \in Addr : get_from_address(Self, c) = {Returns(inner, dirty, expected_at(inner, c))}
    /\ call.name = "get_from_address" => call.ret = expected_at(inner, call.arg[1])

C1_Step ==
    call'.name = "insert" =>
        /\ entries_of(inner') = entries_of(inner) \cup {call'.arg}
        /\ Len(inner') = Len(inner) + 1

\* C1: after sorted inserts of pairwise-non-overlapping blocks in any order
\* the map is normalized (not pending, sorted), it holds exactly the entries
\* inserted, and get_from_address(c) returns the value of the block that
\* contains c, and nothing when no block contains c.
C1_SortedInsertLookup == []C1_State /\ [][C1_Step]_vars

\* Three blocks are stored and a point query has found the value of one.
C1_Witness ==
    /\ call.name = "get_from_address"
    /\ Len(inner) = 3
    /\ call.ret = Some("GB")

\* C2: whenever the map is not pending, its entries are sorted ascending by
\* (start, end) and no two entries have the same (start, end).
C2_NormalizedIsSortedUnique == ~dirty => (is_sorted(inner) /\ unique_ranges(inner))

\* C3: a normalize that follows a run of insert_unstable calls leaves exactly
\* one entry for every range that two or more of the appended entries carry.
C3_NormalizeLeavesOnePerRange ==
    [][call'.name = "normalize" =>
        \A r \in Blocks : count_of(inner, r) >= 2 => count_of(inner', r) = 1]_vars

\* C4: normalize is idempotent: once normalize has returned, every outcome of
\* a second normalize is the entry sequence the first one left.
C4_NormalizeIdempotent ==
    call.name = "normalize" => \A o \in normalize(Self) : o.inner = inner

\* The maps that sorted inserts of the items, in their order, build from an
\* empty map.
RECURSIVE sorted_insert_all(_)
sorted_insert_all(items) ==
    IF Len(items) = 0 THEN {Map(<<>>, FALSE)}
    ELSE LET last == items[Len(items)]
         IN  UNION {{Map(o.inner, o.dirty) : o \in insert(m, last[1], last[2])} :
                    m \in sorted_insert_all(SubSeq(items, 1, Len(items) - 1))}

C5_Step ==
    /\ call'.name = "insert_unstable" => inner' = Append(inner, call'.arg)
    /\ (call'.name = "normalize" /\ unique_ranges(inner) /\ pairwise_disjoint(inner)) =>
            sorted_insert_all(inner) = {Map(inner', dirty')}

\* C5: in a bulk load the appends keep the items in call order, and when the
\* items are distinct and pairwise non-overlapping the one normalize leaves the
\* very map (same entries, same order, not pending) that sorted inserts of
\* the same items in the same order build.
C5_BulkLoadEqualsSortedInserts == [][C5_Step]_vars

\* A bulk load of three non-overlapping blocks has been normalized.
C5_Witness ==
    /\ call.name = "normalize"
    /\ Len(inner) = 3
    /\ pairwise_disjoint(inner)

\* C6 as claimed: for start <= end, Equal iff start <= c <= end, Less iff
\* c < start, Greater iff c > end.
C6_AsClaimed ==
    (call.name = "partial_cmp" /\ call.arg[1][1] <= call.arg[1][2]) =>
        LET b == call.arg[1]
            c == call.arg[2]
        IN  /\ call.ret = Some(Equal) <=> (start(b) <= c /\ c <= end(b))
            /\ call.ret = Some(Less) <=> c < start(b)
            /\ call.ret = Some(Greater) <=> c > end(b)

\* C6 as amended: for start <= end the comparison of the block against c
\* returns Equal iff start <= c <= end, Less iff c > end (the block lies
\* below c) and Greater iff c < start (the block lies above c).
C6_BlockAgainstPoint ==
    (call.name = "partial_cmp" /\ call.arg[1][1] <= call.arg[1][2]) =>
        LET b == call.arg[1]
            c == call.arg[2]
        IN  /\ call.fault = NoFault
            /\ call.ret = Some(Equal) <=> (start(b) <= c /\ c <= end(b))
            /\ call.ret = Some(Less) <=> c > end(b)
            /\ call.ret = Some(Greater) <=> c < start(b)

\* A block that ends below the coordinate has compared Less.
C6_Witness ==
    /\ call.name = "partial_cmp"
    /\ call.arg = <<(<<0, 1>>), 2>>
    /\ call.ret = Some(Less)

QueryOps ==
    {"contains_address", "contains_block", "get_from_address", "get_from_address_mut",
     "get_from_block", "get_from_block_mut", "blocks", "values", "values_mut", "iter",
     "iter_mut", "into_iter"}

\* C7 as claimed: insert_unstable leaves pending = true; normalize, insert and
\* remove leave pending = false; no other operation returns with pending = true.
C7_AsClaimed ==
    /\ call.name = "insert_unstable" => dirty
    /\ call.name \in {"normalize", "insert", "remove"} => ~dirty
    /\ (call.name \notin {"idle", "insert_unstable"} /\ call.fault = NoFault) => ~dirty

C7_State ==
    /\ call.name = "insert_unstable" => dirty
    /\ call.name \in {"normalize", "insert", "remove", "extend", "from_iter", "clear",
                      "new", "with_capacity"} => ~dirty

C7_Step ==
    /\ (~dirty /\ dirty') => call'.name = "insert_unstable"
    /\ (dirty' /\ call'.name \notin {"idle", "insert_unstable"}) =>
            /\ dirty
            /\ \/ call'.name \in {"len", "is_empty"}
               \/ call'.fault = NotNormalized
               \/ ~debug_assertions /\ call'.name \in QueryOps \cup {"remove_unstable"}

\* C7 as amended: insert_unstable always leaves pending = true; normalize,
\* insert and remove (and extend, clear and the constructors) always leave
\* pending = false; no operation other than insert_unstable turns pending from
\* false to true; an operation that ends with pending = true was called on a
\* pending map and does not write the flag: len, is_empty, a query or
\* remove_unstable that faults, or one of these in a build without debug
\* assertions.
C7_PendingStateMachine == []C7_State /\ [][C7_Step]_vars

\* len has returned on a pending map, which is still pending.
C7_Witness ==
    /\ call.name = "len"
    /\ call.fault = NoFault
    /\ dirty

C8_Step ==
    /\ (call'.name \in QueryOps /\ call.name = "idle" /\ dirty /\ debug_assertions) =>
            /\ call'.fault = NotNormalized
            /\ call'.ret = None
            /\ UNCHANGED <<inner, dirty>>
    /\ call.fault = NoFault

\* C8: in a build with debug assertions every query operation called on a
\* pending map ends in the assertion failure and returns no result, and
\* nothing happens after a fault.
C8_QueryOnPendingFaults == [][C8_Step]_vars

\* A point query on a pending map has faulted.
C8_Witness ==
    /\ call.name = "get_from_address"
    /\ call.fault = NotNormalized
    /\ dirty
    /\ debug_assertions

\* C9: with sorted inserts of non-overlapping blocks, unordered removals and
\* point queries only, the map is never pending and no call faults, and a
\* point query answers otherwise than a scan of the entries would only when
\* the entries are out of order.
C9_HazardIsSilent ==
    /\ ~dirty
    /\ call.fault = NoFault
    /\ (call.name = "get_from_address" /\ call.ret # expected_at(inner, call.arg[1])) =>
            ~is_sorted(inner)

\* After an unordered removal, with debug assertions on and pending false, a
\* point query for a coordinate inside a stored block has returned nothing.
C9_Witness ==
    /\ call.name = "get_from_address"
    /\ call.ret = None
    /\ call.fault = NoFault
    /\ debug_assertions
    /\ ~dirty
    /\ pairwise_disjoint(inner)
    /\ \E i \in 1 .. Len(inner) : range_contains(inner[i][1], call.arg[1])

C10_Step ==
    (call'.name = "insert" /\ ~dirty /\ is_sorted(inner) /\ unique_ranges(inner)) =>
        LET r == call'.arg[1]
            v == call'.arg[2]
            hits == {i \in 1 .. Len(inner) : inner[i][1] = r}
        IN  /\ IF hits # {}
               THEN LET i == CHOOSE i \in hits : TRUE
                    IN  /\ call'.ret = Some(inner[i][2])
                        /\ inner' = [inner EXCEPT ![i] = <<r, v>>]
               ELSE /\ call'.ret = None
                    /\ Len(inner') = Len(inner) + 1
                    /\ is_sorted(inner')
                    /\ \E k \in 1 .. Len(inner') :
                        /\ inner'[k] = <<r, v>>
                        /\ SubSeq(inner', 1, k - 1) \o SubSeq(inner', k + 1, Len(inner')) = inner
            /\ ~dirty'
            /\ get_from_block(Map(inner', dirty'), r) = {Returns(inner', dirty', Some(v))}

\* C10: on a normalized map (sorted, unique ranges) insert(r, v) returns the
\* previous value and replaces it in place when range r is stored, otherwise
\* returns nothing and places (r, v) at its sorted position, the other
\* entries keeping their order; get_from_block(r) returns v afterwards.
C10_InsertOrReplace == [][C10_Step]_vars

\* An insert has replaced the value of a stored range in a full map.
C10_Witness ==
    /\ call.name = "insert"
    /\ call.ret = Some("US")
    /\ call.arg[2] = "GB"
    /\ Len(inner) = 3
    /\ is_sorted(inner)
    /\ unique_ranges(inner)

C11_Step ==
    (call'.name = "remove" /\ ~dirty /\ is_sorted(inner) /\ unique_ranges(inner)) =>
        LET r == call'.arg[1]
            hits == {i \in 1 .. Len(inner) : inner[i][1] = r}
        IN  /\ IF hits # {}
               THEN LET i == CHOOSE i \in hits : TRUE
                    IN  /\ call'.ret = Some(inner[i][2])
                        /\ inner' = SubSeq(inner, 1, i - 1) \o SubSeq(inner, i + 1, Len(inner))
               ELSE /\ call'.ret = None
                    /\ inner' = inner
            /\ ~dirty'
            /\ call'.fault = NoFault

\* C11: on a normalized map (sorted, unique ranges) remove(r) returns the
\* value stored for exactly range r and deletes that entry alone, every other
\* entry staying in the same relative order; when no entry has exactly range
\* r it returns nothing and leaves the entry sequence as it was.
C11_RemoveExactRange == [][C11_Step]_vars

\* A remove has taken the first of three entries out: the two that remain
\* are the ones that followed it, in order.
C11_Witness ==
    /\ call.name = "remove"
    /\ call.ret # None
    /\ Len(inner) = 2
    /\ is_sorted(inner)
    /\ key_le(call.arg[1], inner[1][1])

C12_Step ==
    call'.name = "insert_unstable" =>
        LET r == call'.arg[1]
            v == call'.arg[2]
            hits == {i \in 1 .. Len(inner) : inner[i][1] = r}
        IN  /\ dirty =>
                    /\ call'.ret = None
                    /\ inner' = Append(inner, <<r, v>>)
            /\ (~dirty /\ is_sorted(inner) /\ unique_ranges(inner)) =>
                    IF hits # {}
                    THEN LET i == CHOOSE i \in hits : TRUE
                         IN  /\ call'.ret = Some(inner[i][2])
                             /\ Len(inner') = Len(inner)
                             /\ inner'[Len(inner')] = <<r, v>>
                             /\ entries_of(SubSeq(inner', 1, Len(inner') - 1)) =
                                    entries_of(inner) \ {inner[i]}
                    ELSE /\ call'.ret = None
                         /\ inner' = Append(inner, <<r, v>>)
            /\ dirty'
            /\ call'.fault = NoFault

\* C12: insert_unstable(r, v) on a pending map returns nothing and appends
\* (r, v), also when an entry with exactly range r is stored; on a normalized
\* map it returns the stored value iff an entry with exactly range r exists,
\* takes that entry out and appends (r, v) as the last entry. The map is
\* pending afterwards.
C12_InsertUnstableReturn == [][C12_Step]_vars

\* An append on a pending map that already held the range has returned
\* nothing: the range is now stored twice.
C12_Witness ==
    /\ call.name = "insert_unstable"
    /\ call.ret = None
    /\ count_of(inner, call.arg[1]) = 2

C13_Step ==
    (call'.name = "remove_unstable" /\ ~dirty /\ is_sorted(inner) /\ unique_ranges(inner)) =>
        LET r == call'.arg[1]
            hits == {i \in 1 .. Len(inner) : inner[i][1] = r}
        IN  /\ IF hits # {}
               THEN LET i == CHOOSE i \in hits : TRUE
                    IN  /\ call'.ret = Some(inner[i][2])
                        /\ Len(inner') = Len(inner) - 1
                        /\ \A j \in 1 .. Len(inner') :
                                inner'[j] = IF j = i THEN inner[Len(inner)] ELSE inner[j]
               ELSE /\ call'.ret = None
                    /\ inner' = inner
            /\ ~dirty'
            /\ call'.fault = NoFault

\* C13: on a normalized map that holds range r at index i, remove_unstable(r)
\* returns its value, moves the former last entry to index i, shortens the
\* sequence by one, leaves every other entry at its index and leaves pending
\* false; when r is not stored it returns nothing and changes neither the
\* entries nor the flag.
C13_RemoveUnstableFrame == [][C13_Step]_vars

\* An unordered removal has put the former last entry in front of a smaller
\* one, and the map is not pending.
C13_Witness ==
    /\ call.name = "remove_unstable"
    /\ call.ret # None
    /\ Len(inner) = 2
    /\ ~is_sorted(inner)
    /\ ~dirty

\* C14: try_new(start, end), and the conversion from a pair that calls it,
\* returns the error iff start > end; for start <= end (start = end included)
\* it returns a block whose start() and end() are the arguments.
C14_TryNewChecksOrder ==
    call.name \in {"try_new", "try_from_pair"} =>
        LET s == call.arg[1]
            e == call.arg[2]
        IN  /\ call.ret = None <=> s > e
            /\ s <= e => (call.ret # None /\ start(call.ret[1]) = s /\ end(call.ret[1]) = e)
            /\ call.fault = NoFault

\* try_new has returned the one-address block (1, 1).
C14_Witness ==
    /\ call.name = "try_new"
    /\ call.arg = <<1, 1>>
    /\ call.ret = Some(<<1, 1>>)

Constructors ==
    {"try_new", "try_from_pair", "from", "from_slice", "from_mut_slice", "try_from_slice",
     "new_block"}

\* C15: every block that a constructor returns has start <= end, and the
\* unchecked new called with start > end faults and returns no block.
C15_BlocksAreOrdered ==
    /\ (call.name \in Constructors /\ call.ret # None) => start(call.ret[1]) <= end(call.ret[1])
    /\ (call.name = "new_block" /\ call.arg[1] > call.arg[2]) =>
            (call.fault # NoFault /\ call.ret = None)

reverse(o) == IF o = Less THEN Greater ELSE IF o = Greater THEN Less ELSE Equal

\* C16: the order between two blocks compares start first and end second and
\* is a strict total order: Equal iff the (start, end) pairs are identical,
\* antisymmetric (the operands exchanged give the reverse result),
\* transitive, and the same order as the sort key (b.0, b.1) of normalize.
C16_BlockOrder ==
    call.name = "cmp" =>
        LET a == call.arg[1]
            b == call.arg[2]
        IN  /\ call.ret \in {Some(Less), Some(Equal), Some(Greater)}
            /\ call.ret = Some(Equal) <=> a = b
            /\ a[1] < b[1] => call.ret = Some(Less)
            /\ a[1] > b[1] => call.ret = Some(Greater)
            /\ (a[1] = b[1] /\ a[2] < b[2]) => call.ret = Some(Less)
            /\ (a[1] = b[1] /\ a[2] > b[2]) => call.ret = Some(Greater)
            /\ cmp(b, a) = reverse(call.ret[1])
            /\ \A c \in Pairs : (call.ret = Some(Less) /\ cmp(b, c) = Less) => cmp(a, c) = Less
            /\ key_le(a, b) <=> call.ret \in {Some(Less), Some(Equal)}

\* Two blocks of the same start have been ordered by their ends.
C16_Witness ==
    /\ call.name = "cmp"
    /\ call.arg = <<(<<0, 1>>), (<<0, 2>>)>>
    /\ call.ret = Some(Less)

\* The results of comparing every block of the sequence to coordinate c.
compared_to(v, c) == [i \in 1 .. Len(v) |-> partial_cmp_addr(v[i][1], c)]

\* C17: along a sequence of valid, pairwise-non-overlapping blocks sorted
\* ascending by (start, end), the comparisons against any coordinate c are
\* monotone: Less for the blocks that lie entirely below c, then Equal for at
\* most one block, the one that contains c, then Greater for the blocks that
\* lie entirely above c.
C17_ComparatorIsMonotone ==
    (is_sorted(inner) /\ pairwise_disjoint(inner)) =>
        \A c \in Addr :
            LET ords == compared_to(inner, c)
            IN  /\ \A i \in 1 .. Len(inner) :
                        /\ ords[i] = Less <=> end(inner[i][1]) < c
                        /\ ords[i] = Equal <=> range_contains(inner[i][1], c)
                        /\ ords[i] = Greater <=> c < start(inner[i][1])
                /\ \A i, j \in 1 .. Len(inner) : (i < j /\ ords[i] # Less) => ords[j] = Greater

\* Three blocks are stored, the query for coordinate 1 has found the middle
\* one: the comparisons were Less, Equal, Greater.
C17_Witness ==
    /\ call.name = "get_from_address"
    /\ call.arg = <<1>>
    /\ call.ret # None
    /\ compared_to(inner, 1) = <<Less, Equal, Greater>>

normalized(v, d) == ~d /\ is_sorted(v) /\ unique_ranges(v)
stored_at(v, r) == {i \in 1 .. Len(v) : v[i][1] = r}
holding(v, c) == {i \in 1 .. Len(v) : range_contains(v[i][1], c)}

\* C18: on a normalized map get_from_block(r) returns a value (the one stored
\* with r) and contains_block(r) is true iff an entry with exactly
\* (start, end) = r is stored; a block that lies inside, contains or overlaps
\* a stored block without being identical to one yields nothing, also when
\* get_from_address finds a stored block for every coordinate of r.
C18_ExactRangeLookup ==
    normalized(inner, dirty) =>
        /\ call.name = "get_from_block" =>
                /\ call.ret # None <=> stored_at(inner, call.arg[1]) # {}
                /\ \A i \in stored_at(inner, call.arg[1]) : call.ret = Some(inner[i][2])
        /\ call.name = "contains_block" =>
                (call.ret = <<TRUE>> <=> stored_at(inner, call.arg[1]) # {})
        /\ call.fault = NoFault

\* The exact-range query for a block strictly inside a stored block has
\* returned nothing, while the point query finds a value for each of its
\* coordinates.
C18_Witness ==
    /\ call.name = "get_from_block"
    /\ call.ret = None
    /\ \E i \in 1 .. Len(inner) :
            /\ inner[i][1] # call.arg[1]
            /\ start(inner[i][1]) <= start(call.arg[1])
            /\ end(call.arg[1]) <= end(inner[i][1])
    /\ \A c \in start(call.arg[1]) .. end(call.arg[1]) :
            \A o \in get_from_address(Self, c) : o.ret # None

\* C19 as claimed: on a normalized map that holds overlapping blocks, the
\* point query for a coordinate that lies in stored blocks returns the value
\* of one of the entries whose block contains it.
C19_AsClaimed ==
    (/\ call.name = "get_from_address"
     /\ normalized(inner, dirty)
     /\ ~pairwise_disjoint(inner)
     /\ holding(inner, call.arg[1]) # {}) =>
        call.ret \in {Some(inner[i][2]) : i \in holding(inner, call.arg[1])}

\* C19 as amended: on a normalized map that holds overlapping blocks, the
\* point query for coordinate c does not fault and returns either nothing
\* (also when stored blocks contain c) or the value of one of the entries
\* whose block contains c; repeated against the same entry sequence it
\* returns the same result and leaves the entries as they are.
C19_OverlapQueryIsDeterministic ==
    (/\ call.name = "get_from_address"
     /\ normalized(inner, dirty)
     /\ ~pairwise_disjoint(inner)) =>
        /\ call.fault = NoFault
        /\ call.ret \in {None} \cup {Some(inner[i][2]) : i \in holding(inner, call.arg[1])}
        /\ get_from_address(Self, call.arg[1]) = {Returns(inner, dirty, call.ret)}

\* A point query for a coordinate that lies in two stored blocks of different
\* values has returned one of the two values.
C19_Witness ==
    /\ call.name = "get_from_address"
    /\ call.ret # None
    /\ normalized(inner, dirty)
    /\ \E i, j \in holding(inner, call.arg[1]) : inner[i][2] # inner[j][2]

blocks_of(v) == {v[i][1] : i \in 1 .. Len(v)}

\* C20: the map that from_iter returns is, for every input sequence, not
\* pending and sorted ascending by (start, end), it stores the blocks of the
\* input, and get_from_block(r) finds a value for every block r of the input.
C20_FromIterIsNormalized ==
    /\ ~dirty
    /\ is_sorted(inner)
    /\ call.fault = NoFault
    /\ call.name = "from_iter" =>
            /\ blocks_of(inner) = blocks_of(call.arg)
            /\ \A r \in blocks_of(call.arg) :
                    \A o \in get_from_block(Self, r) : o.fault = NoFault /\ o.ret # None
    /\ (call.name = "get_from_block" /\ call.arg[1] \in blocks_of(inner)) => call.ret # None

\* from_iter was given three entries out of order, two of them with the same
\* range: the map is sorted and not pending, and the exact-range query has
\* found a value for that range.
C20_Witness ==
    /\ call.name = "get_from_block"
    /\ call.ret # None
    /\ Len(inner) = 3
    /\ count_of(inner, call.arg[1]) = 2

C21_State ==
    call.name \in {"new", "with_capacity", "clear"} =>
        (inner = <<>> /\ ~dirty /\ call.fault = NoFault)

C21_Step == call'.name = "clear" => (inner' = <<>> /\ ~dirty')

\* C21: new and with_capacity(n), for every n, return a map with no entries
\* and pending = false, and clear leaves the map in that state whatever state
\* it was called in, a pending one included.
C21_EmptyAndNotPending == []C21_State /\ [][C21_Step]_vars

\* clear has returned: the map is empty and not pending.
C21_Witness ==
    /\ call.name = "clear"
    /\ inner = <<>>
    /\ ~dirty

\* C22: short-code parsing fails with the invalid-code error iff the string's
\* character count is not 2, 3 or 4; for a count of 2, 3 or 4 it returns the
\* two-, three- or four-letter code holding exactly those characters when all
\* are uppercase ASCII letters, and the unassigned sentinel, not an error,
\* when one of them is not.
C22_ShortCodeParsing ==
    call.name = "from_str" =>
        LET value == call.arg
            count == Len(value)
            upper == \A i \in 1 .. count : value[i] \in AsciiUppercase
        IN  /\ call.ret[1] = "Err" <=> count \notin {2, 3, 4}
            /\ count \notin {2, 3, 4} => call.ret = <<"Err", value>>
            /\ (count = 2 /\ upper) => call.ret = <<"Ok", <<"Alpha2", value>>>>
            /\ (count = 3 /\ upper) => call.ret = <<"Ok", <<"Alpha3", value>>>>
            /\ (count = 4 /\ upper) => call.ret = <<"Ok", <<"Alpha4", value>>>>
            /\ (count \in {2, 3, 4} /\ ~upper) => call.ret = <<"Ok", <<"Unassigned">>>>
            /\ call.fault = NoFault

\* A three-character string with a digit in it has parsed to the unassigned
\* sentinel.
C22_Witness ==
    /\ call.name = "from_str"
    /\ call.arg = <<"A", "Z", "1">>
    /\ call.ret = <<"Ok", <<"Unassigned">>>>

\* C23: decoding a 32-bit address from its unsigned 32-bit integer encoding
\* gives the coordinate whose first octet is the integer's most significant
\* byte and whose fourth is its least significant byte, and decoding the
\* dotted-decimal text of that coordinate gives the same coordinate
\* (0x01020304 and "1.2.3.4" both give 1.2.3.4).
C23_Ipv4IntegerEqualsText ==
    /\ call.name = "visit_u32" =>
            LET addr == ipv4_of_u32(call.arg)
            IN  /\ call.fault = NoFault
                /\ call.ret = <<"Ok", addr>>
                /\ Ipv4Visitor_visit_str(ipv4_to_string(addr)).ret = call.ret
    /\ call.name = "ipv4_visit_str" =>
            /\ call.fault = NoFault
            /\ call.ret[1] = "Ok"
            /\ ipv4_to_string(call.ret[2]) = call.arg

\* The integer 0x01020304 has decoded to 1.2.3.4, as the text "1.2.3.4" does.
C23_Witness ==
    /\ call.name = "visit_u32"
    /\ call.arg = <<258, 772>>
    /\ call.ret = <<"Ok", <<1, 2, 3, 4>>>>
    /\ Ipv4Visitor_visit_str(<<"1", ".", "2", ".", "3", ".", "4">>).ret = call.ret

\* C24: decoding a 128-bit address from its unsigned 128-bit integer encoding
\* completes without fault and gives the coordinate whose eight 16-bit
\* segments are the eight 16-bit chunks of the integer, most significant
\* first, the same coordinate as decoding its colon-hex text.
C24_Ipv6IntegerEqualsText ==
    call.name = "visit_u128" =>
        LET addr == ipv6_of_u128(call.arg)
        IN  /\ call.fault = NoFault
            /\ call.ret = <<"Ok", addr>>
            /\ Ipv6Visitor_visit_str(ipv6_to_string(addr)).ret = call.ret

\* The value parse_ip_map is to store for a row that compute accepts.
value_of_row(row) ==
    LET code == from_str(row[3])[2]
    IN  IF \E c \in Countries : c[2] = code
        THEN Present(CHOOSE c \in Countries : c[2] = code)
        ELSE Missing(code)

RowLoaded == Loading /\ call'.name = "load_row"
MapLoaded == Loading /\ call'.name = "parse_ip_map" /\ call'.ret = <<"Ok">>

\* Every accepted row is appended with its block and the value of its code.
C25_RowStep ==
    RowLoaded =>
        inner' = Append(inner, <<(<<call'.arg[1], call'.arg[2]>>), value_of_row(call'.arg)>>)

\* C25 as claimed: every row is appended with its block and the resolved
\* record or, for a code the table does not resolve, the missing variant
\* with that code, and the loaded map holds the entry of every row.
C25_AsClaimed ==
    [][/\ C25_RowStep
       /\ MapLoaded => \A i \in 1 .. Len(inner) : inner[i] \in entries_of(inner')]_vars

\* C25: every row is appended with its block and the resolved record or, for
\* a code the table does not resolve, the missing variant with that code;
\* the loaded map holds the entry of every row that does not repeat the
\* block of the row before it, and an entry for the block of every row.
C25_UnknownCodesAreKept ==
    [][/\ C25_RowStep
       /\ MapLoaded =>
            /\ \A i \in 1 .. Len(inner) :
                    (i = 1 \/ inner[i][1] # inner[i - 1][1]) => inner[i] \in entries_of(inner')
            /\ blocks_of(inner') = blocks_of(inner)]_vars

\* A file with a row of an unknown code, a row of the Tor file's "??" and a
\* row that resolves has been loaded, and the map holds all three.
C25_Witness ==
    /\ call.name = "parse_ip_map"
    /\ call.ret = <<"Ok">>
    /\ <<(<<0, 0>>), Missing(Alpha2(<<"Z", "Z">>))>> \in entries_of(inner)
    /\ <<(<<1, 1>>), Missing(Unassigned)>> \in entries_of(inner)
    /\ <<(<<2, 2>>), Present(Chad)>> \in entries_of(inner)

\* C26: every map parse_ip_map returns is not pending; no row is appended
\* and no second normalize runs once the one normalize has run; and no query
\* runs on the map before that normalize.
C26_State == (call.name = "parse_ip_map" /\ call.ret = <<"Ok">>) => ~dirty
C26_Step ==
    /\ ~Loading => call'.name \notin {"with_capacity", "load_row", "parse_ip_map"}
    /\ call'.name = "get_from_address" => ~Loading /\ ~dirty
    /\ MapLoaded => call.name = "load_row" \/ inner = <<>>
C26_AppendsThenOneNormalize == []C26_State /\ [][C26_Step]_vars

\* Three rows were appended, the map was normalized once and
\* returned, and the command is querying it.
C26_Witness ==
    /\ call.name = "get_from_address"
    /\ Len(inner) = 3
    /\ ~dirty
    /\ inner[1][1] = <<0, 0>>
    /\ inner[3][1] = <<2, 2>>

\* Some block of the table covers the address.
covered(v, c) == \E i \in 1 .. Len(v) : range_contains(v[i][1], c)

\* The flags of main.rs::resolve select the table of the address's family.
selects_table(command) ==
    \/ command.address[1] = "V4" /\ (command.v4 \/ ~command.v6)
    \/ command.address[1] = "V6" /\ (command.v6 \/ ~command.v4)

\* C27: for an address that no block of the selected table covers, the
\* resolve command ends with the unmapped-address error, whatever output
\* flags are given, none included.
C27_UnmappedIsAnError ==
    /\ (call.name = "resolve" /\ selects_table(call.arg) /\ ~covered(inner, call.arg.address[2])) =>
            /\ call.fault = NoFault
            /\ call.ret[1] = <<"Err", "unmapped address provided">>
    /\ (call.name = "run" /\ ~covered(inner, call.arg.address[2])) =>
            /\ call.fault = NoFault
            /\ call.ret[1] = <<"Err", "the given ip address is unmapped">>

\* The results of the command on the map.
results(outcomes) == {<<o.ret, o.out>> : o \in outcomes}
names_put_out(out) == {out[i][3] : i \in {k \in 1 .. Len(out) : out[k][1] = "stdout"}}

\* C28: without the name, alpha-2 and numeric flags the resolve command
\* does what it does with the name flag alone, and for an address mapped to
\* a country of the reference table it puts out the country's name.
C28_NameIsTheDefault ==
    /\ (call.name = "resolve" /\ ~call.arg.name /\ ~call.arg.alpha_2 /\ ~call.arg.numeric
            /\ covered(inner, call.arg.address[2])) =>
            /\ call.ret \in results(resolve([call.arg EXCEPT !.name = TRUE], Self))
            /\ \A o \in get_from_address(Self, call.arg.address[2]) :
                    (selects_table(call.arg) /\ o.ret # None /\ o.ret[1][1] = "Present") =>
                        o.ret[1][2][1] \in names_put_out(call.ret[2])
    /\ (call.name = "run" /\ ~call.arg.name /\ ~call.arg.code /\ ~call.arg.numeric
            /\ covered(inner, call.arg.address[2])) =>
            /\ call.ret \in results(run([call.arg EXCEPT !.name = TRUE], Self))
            /\ \A o \in get_from_address(Self, call.arg.address[2]) :
                    (o.ret # None /\ o.ret[1][1] = "Present") =>
                        o.ret[1][2][1] \in names_put_out(call.ret[2])

\* C29: for every country of the reference table, the list command's country
\* argument set to that country's exact name finds that country.
C29_NameFilterFindsCountry ==
    call.name = "find_country" =>
        \A c \in Countries : call.arg = c[1] => call.ret = <<"Ok", c>>

\* C30: in every state reached through new, with_capacity, from_iter, extend,
\* insert, remove, insert_unstable, normalize and clear, a map that is not
\* pending has its entries in non-decreasing (start, end) order.
C30_NotPendingIsSorted == ~dirty => is_sorted(inner)

\* normalize has put three entries with different blocks in order.
C30_Witness ==
    /\ call.name = "normalize"
    /\ ~dirty
    /\ Len(inner) = 3
    /\ inner[1][1] # inner[2][1]
    /\ inner[2][1] # inner[3][1]
    /\ is_sorted(inner)

\* C31: after remove(r) has returned, the map holds no entry with range r:
\* contains_block(r) is false and get_from_block(r) returns nothing.
C31_RemovedRangeIsGone ==
    (call.name = "remove" /\ call.fault = NoFault) =>
        LET r == call.arg[1]
        IN  /\ r \notin blocks_of(inner)
            /\ \A o \in contains_block(Self, r) : o.fault = NoFault /\ o.ret = <<FALSE>>
            /\ \A o \in get_from_block(Self, r) : o.fault = NoFault /\ o.ret = None

C32_Step ==
    call'.name = "normalize" =>
        /\ blocks_of(inner') = blocks_of(inner)
        /\ entries_of(inner') \subseteq entries_of(inner)
        /\ Len(inner') <= Len(inner)

\* C32: normalize only reorders and drops entries: the map holds the same set
\* of ranges before and after, every entry afterwards was an entry before,
\* and the length does not grow.
C32_NormalizeReordersAndDrops == [][C32_Step]_vars

\* normalize has returned a map that holds the ranges (0,0) and (0,1), once
\* each, with (0,0) in front.
C32_Witness ==
    /\ call.name = "normalize"
    /\ blocks_of(inner) = {<<0, 0>>, <<0, 1>>}
    /\ Len(inner) = 2
    /\ inner[1][1] = <<0, 0>>

\* A row no map can be loaded from: its range is inverted, or its country
\* column is not 2, 3 or 4 characters long.
malformed(row) == row[1] > row[2] \/ Len(row[3]) \notin {2, 3, 4}

LoadFailed == call.name = "parse_ip_map" /\ call.ret[1] = "Err"

C33_Step ==
    /\ (Loading /\ Len(call'.arg) = 3 /\ malformed(call'.arg)) => LoadFailed'
    /\ LoadFailed => call' = call

\* C33: when the row read is malformed (start > end, or a country code that
\* is not 2, 3 or 4 characters long) parse_ip_map returns an error, however
\* many valid rows precede it, and the caller never gets a map from it.
C33_MalformedRowAbortsLoad == [][C33_Step]_vars

\* The load has failed on the inverted range (1, 0) after two valid rows.
C33_Witness ==
    /\ LoadFailed
    /\ call.arg[1] = 1
    /\ call.arg[2] = 0
    /\ Len(call.arg[3]) = 2
    /\ Len(inner) = 2

\* The maps of up to MaxLen entries that hold block b, blocks with start > end
\* among the others.
maps_holding(b) ==
    {[i \in 1 .. Len(w) |-> <<w[i], "US">>] :
        w \in {x \in SeqsUpTo(Pairs, MaxLen) : \E i \in 1 .. Len(x) : x[i] = b}}

\* C34: for every block, one with start > end included, and every coordinate
\* the comparison returns Less, Equal or Greater and never reaches its
\* unreachable arm, so that the point search of a map holding the block does
\* not fault.
C34_ComparisonIsTotal ==
    call.name = "partial_cmp" =>
        /\ call.fault = NoFault
        /\ call.ret \in {Some(Less), Some(Equal), Some(Greater)}
        /\ \A v \in maps_holding(call.arg[1]) : search_address(v, call.arg[2]).fault = NoFault

\* The block (2, 0), start > end, has been compared against 1: Less.
C34_Witness ==
    /\ call.name = "partial_cmp"
    /\ call.arg = <<(<<2, 0>>), 1>>
    /\ call.ret = Some(Less)

\* C35: building a block from a collection of addresses fails iff the
\* collection is empty, and otherwise returns the block from the smallest
\* element of the collection to its largest.
C35_BlockSpansCollection ==
    call.name \in {"from_mut_slice", "try_from_slice"} =>
        LET elements == {call.arg[i] : i \in 1 .. Len(call.arg)}
        IN  /\ call.fault = NoFault
            /\ call.ret = None <=> elements = {}
            /\ elements # {} =>
                    /\ call.ret # None
                    /\ \A x \in elements : start(call.ret[1]) <= x /\ x <= end(call.ret[1])
                    /\ start(call.ret[1]) \in elements
                    /\ end(call.ret[1]) \in elements

\* C36: for every code value (2, 3 or 4 uppercase ASCII letters, or the
\* sentinel) parsing or deserializing the text that Display or serialization
\* writes for it succeeds with the same value; the sentinel is written "??"
\* and "??" parses back to the sentinel.
C36_CodeTextRoundTrips ==
    call.name \in {"to_string", "serialize"} =>
        /\ from_str(call.ret) = CodeOk(call.arg)
        /\ CodeVisitor_visit_str(call.ret) = CodeOk(call.arg)
        /\ call.arg = Unassigned => call.ret = <<"?", "?">>
        /\ call.arg = Unassigned => from_str(<<"?", "?">>) = CodeOk(Unassigned)

\* The sentinel has been written: "??".
C36_Witness ==
    /\ call.name = "to_string"
    /\ call.arg = Unassigned
    /\ call.ret = <<"?", "?">>

====
